---- MODULE Spec2Model ----
\* A model of pylib/components.py: the typedef sorter, the schema merger, the
\* fragment locator of architecture components, the skeleton assembler, the
\* module writer and the build loop over the configured skeletons.
\*
\* Text is modelled at word level.  A line is a sequence whose elements are
\* words, the single blank " " and the terminator ";"; a block of text is
\* the sequence of its lines (the result of str.split on the newline), so a
\* block always holds at least one line and the empty text is the block of
\* one empty line.
EXTENDS Integers, Sequences, FiniteSets, TLC

VARIABLES
    typedef_lines,   \* sort_typedefs: the argument of the first call
    sort_pc,         \* "start", "sorted" (first call returned), "resorted"
    sort_first,      \* outcome of sort_typedefs(typedef_lines)
    sort_second,     \* outcome of sort_typedefs on the text the first call returned
    sections,        \* _merge_schema_sections: the argument, one parsed fragment each
    merged_schema,   \* the accumulator element merged_schema
    sec_i,           \* number of sections the loop has merged
    schema_pc,       \* "merging", "done" (returned), "failed" (raised)
    schema_err,      \* the exception raised, NoError if none
    loc_resource,    \* ArchitectureComponent.parse: self._resource_name
    loc_arch,        \* arch.name
    loc_exists,      \* the paths for which os.path.exists holds
    loc_k,           \* number of names the loop has tried
    loc_tried,       \* the names handed to Component.find, in order
    loc_component,   \* the local variable component, NotFound for None
    loc_pc,          \* "search", "parsed" (file handed to the parser), "failed"
    loc_err,         \* the exception raised, NoError if none
    gen_ncomp,       \* build: per skeleton, the number of its components
    gen_files,       \* per module, the rendered sections of the fragment files
                     \* the components of the skeleton have read, in order
    gen_meta_exists, \* per skeleton, whether its python_file exists
    gen_rtos,        \* index of the skeleton being generated
    gen_arch,        \* index of the architecture being generated
    gen_k,           \* number of components get_module_sections has parsed
    module_sections, \* the dictionary get_module_sections builds
    gen_pc,          \* "parse", "source", "header", "schema", "meta", "done"
    gen_err,         \* the exception that ended the run, NoError if none
    gen_disk         \* per module, the files of the module directory

sortVars == <<typedef_lines, sort_pc, sort_first, sort_second>>
schemaVars == <<sections, merged_schema, sec_i, schema_pc, schema_err>>

locVars == <<loc_resource, loc_arch, loc_exists, loc_k, loc_tried, loc_component,
             loc_pc, loc_err>>

genVars == <<gen_ncomp, gen_files, gen_meta_exists, gen_rtos, gen_arch, gen_k,
             module_sections, gen_pc, gen_err, gen_disk>>

vars == <<sortVars, schemaVars, locVars, genVars>>

\* ------------------------------------------------------------------ bounds

\* Most lines in one block of typedef text.
MaxLines == 3

\* Most schema sections in one call of _merge_schema_sections.
MaxSections == 2

\* Most components in the skeletons of one build, all skeletons together.
MaxComponents == 2

\* ------------------------------------------------------------- generic text

NoError == [kind |-> "none"]

EmptyText == << <<>> >>

\* '\n'.join(list of lines): an empty list joins to the empty text.
JoinLines(ls) == IF ls = <<>> THEN EmptyText ELSE ls

\* str.split(): the words of a piece of a line, blanks dropped.
Words(l) == SelectSeq(l, LAMBDA t : t # " ")

\* ' '.join(words)
RECURSIVE JoinWords(_)
JoinWords(ws) ==
    IF ws = <<>> THEN <<>>
    ELSE IF Len(ws) = 1 THEN <<ws[1]>>
    ELSE <<ws[1], " ">> \o JoinWords(Tail(ws))

\* list.remove(x): drops the first element equal to x.
RECURSIVE RemoveFirst(_, _)
RemoveFirst(s, x) ==
    IF s = <<>> THEN <<>>
    ELSE IF s[1] = x THEN Tail(s)
    ELSE <<s[1]>> \o RemoveFirst(Tail(s), x)

\* reversed(s)
RECURSIVE ReverseSeq(_)
ReverseSeq(s) == IF s = <<>> THEN <<>> ELSE Append(ReverseSeq(Tail(s)), s[1])

\* The sequences over S of length at most n.
RECURSIVE SeqsUpTo(_, _)
SeqsUpTo(S, n) ==
    IF n = 0 THEN {<<>>}
    ELSE LET shorter == SeqsUpTo(S, n - 1)
         IN  shorter \cup {Append(s, x) : s \in {t \in shorter : Len(t) = n - 1}, x \in S}

\* ------------------------------------------------------------ sort_typedefs

\* The outcome of parsing one line: "skip" for the empty line, an error, or
\* the pair (new_type, old_type).  Both components are pieces of text: new is
\* one word, old the middle words joined by single blanks.
ParseTypedefLine(l) ==
    IF l = <<>> THEN [kind |-> "skip"]
    ELSE IF l[Len(l)] # ";" THEN [kind |-> "Exception", msg |-> "no_terminator"]
    ELSE LET parts == Words(SubSeq(l, 1, Len(l) - 1))
         IN  IF parts = <<>> THEN [kind |-> "IndexError"]
             ELSE IF parts[1] # "typedef"
                  THEN [kind |-> "Exception", msg |-> "no_typedef"]
             ELSE [kind |-> "pair",
                   new  |-> <<parts[Len(parts)]>>,
                   old  |-> JoinWords(SubSeq(parts, 2, Len(parts) - 1))]

Pair(new, old) == [new |-> new, old |-> old]

\* The parsing loop: the list of pairs, or the first error met.
RECURSIVE ParseTypedefs(_, _)
ParseTypedefs(lines, acc) ==
    IF lines = <<>> THEN [err |-> NoError, typedefs |-> acc]
    ELSE LET p == ParseTypedefLine(lines[1])
         IN  IF p.kind = "skip" THEN ParseTypedefs(Tail(lines), acc)
             ELSE IF p.kind = "pair"
                  THEN ParseTypedefs(Tail(lines), Append(acc, Pair(p.new, p.old)))
             ELSE [err |-> p, typedefs |-> acc]

\* Mutant: the first loop puts each pair at the front of r.
RECURSIVE FirstLoopPrepend(_, _, _)
FirstLoopPrepend(snapshot, st, new_types) ==
    IF snapshot = <<>> THEN st
    ELSE LET p == snapshot[1]
         IN  IF p.old \notin new_types
             THEN FirstLoopPrepend(Tail(snapshot),
                                   [r |-> <<p>> \o st.r,
                                    typedefs |-> RemoveFirst(st.typedefs, p)],
                                   new_types)
             ELSE FirstLoopPrepend(Tail(snapshot), st, new_types)

\* The first loop, "for (new, old) in typedefs[:]": every pair whose old type
\* is no new type of the block moves from typedefs to the end of r.
RECURSIVE FirstLoop(_, _, _)
FirstLoop(snapshot, st, new_types) ==
    IF snapshot = <<>> THEN st
    ELSE LET p == snapshot[1]
         IN  IF p.old \notin new_types
             THEN FirstLoop(Tail(snapshot),
                            [r |-> Append(st.r, p),
                             typedefs |-> RemoveFirst(st.typedefs, p)],
                            new_types)
             ELSE FirstLoop(Tail(snapshot), st, new_types)

FirstPass(typedefs) ==
    LET new_types == {typedefs[k].new : k \in 1..Len(typedefs)}
    IN  FirstLoop(typedefs, [r |-> <<>>, typedefs |-> typedefs], new_types)

\* The inner loop of the while loop, "for (new, old) in typedefs[:]": every
\* pair whose old type is check_type moves from typedefs to the end of r.
RECURSIVE InnerLoop(_, _, _)
InnerLoop(snapshot, st, check_type) ==
    IF snapshot = <<>> THEN st
    ELSE LET p == snapshot[1]
         IN  IF p.old = check_type
             THEN InnerLoop(Tail(snapshot),
                            [r |-> Append(st.r, p),
                             typedefs |-> RemoveFirst(st.typedefs, p)],
                            check_type)
             ELSE InnerLoop(Tail(snapshot), st, check_type)

\* Mutant: the while loop stops at the entries the first loop placed.
RECURSIVE ExpandUpTo(_, _, _)
ExpandUpTo(st, i, n) ==
    IF i > n THEN st
    ELSE ExpandUpTo(InnerLoop(st.typedefs, st, st.r[i].new), i + 1, n)

ExpandBaseOnly(st, i) == ExpandUpTo(st, i, Len(st.r))

\* Mutant: the while loop places the pairs it finds before the rest of r.
RECURSIVE ExpandFront(_, _)
ExpandFront(st, i) ==
    IF i > Len(st.r) THEN st
    ELSE LET check_type == st.r[i].new
             found == SelectSeq(st.typedefs, LAMBDA p : p.old = check_type)
             rest == SelectSeq(st.typedefs, LAMBDA p : p.old # check_type)
         IN  ExpandFront([r |-> found \o st.r, typedefs |-> rest],
                         i + Len(found) + 1)

\* The while loop: i is the 1-based index of the next entry of r to check.
RECURSIVE Expand(_, _)
Expand(st, i) ==
    IF i > Len(st.r) THEN st
    ELSE Expand(InnerLoop(st.typedefs, st, st.r[i].new), i + 1)

\* 'typedef {} {};'.format(old, new)
FormatTypedef(p) == <<"typedef", " ">> \o p.old \o <<" ">> \o p.new \o <<";">>

\* The placed pairs r of a call, before they are formatted.
SortedPairs(typedefs) == Expand(FirstPass(typedefs), 1).r

\* sort_typedefs(typedef_lines): an error, or the returned text.
sort_typedefs(lines) ==
    LET parsed == ParseTypedefs(lines, <<>>)
    IN  IF parsed.err # NoError THEN [err |-> parsed.err, text |-> EmptyText]
        ELSE LET r == SortedPairs(parsed.typedefs)
             IN  [err |-> NoError,
                  text |-> JoinLines([k \in 1..Len(r) |-> FormatTypedef(r[k])])]

\* ---- inputs of the sorter

TypeNames == {"A", "B", "C"}
BaseTypes == {"int"}

TypedefLine(old, new) == <<"typedef", " ">> \o old \o <<" ", new, ";">>

GoodLines ==
    {TypedefLine(<<o>>, n) : o \in TypeNames \cup BaseTypes, n \in TypeNames}
    \cup {TypedefLine(<<"struct", " ", "A">>, "B"),
          <<"typedef", " ", "A", ";">>,
          <<>>}

BadLines ==
    {<<"typedef", " ", "int", " ", "A">>,
     <<"int", " ", "A", ";">>,
     <<";">>}

TypedefBlocks == SeqsUpTo(GoodLines \cup BadLines, MaxLines) \ {<<>>}

NotRun == [err |-> [kind |-> "notrun"], text |-> EmptyText]

SortStart ==
    /\ sort_pc = "start"
    /\ sort_first = NotRun
    /\ sort_second = NotRun

\* The first call.
SortFirst ==
    /\ sort_pc = "start"
    /\ sort_first' = sort_typedefs(typedef_lines)
    /\ sort_pc' = "sorted"
    /\ UNCHANGED <<typedef_lines, sort_second, schemaVars, locVars, genVars>>

\* A second call, on the text the first call returned.
SortAgain ==
    /\ sort_pc = "sorted"
    /\ sort_first.err = NoError
    /\ sort_second' = sort_typedefs(sort_first.text)
    /\ sort_pc' = "resorted"
    /\ UNCHANGED <<typedef_lines, sort_first, schemaVars, locVars, genVars>>

\* ----------------------------------------------------- _merge_schema_entries

\* An XML element is [attrib, kids]: attrib is the record of its attributes,
\* kids the sequence of its child elements.  The attribute "name" may be
\* absent; the attribute "from" stands for the rest of the element (its other
\* attributes and text) and tells which section an element came from.
Element(name, from, kids) == [attrib |-> [name |-> name, from |-> from], kids |-> kids]
Unnamed(from, kids) == [attrib |-> [from |-> from], kids |-> kids]

HasName(e) == "name" \in DOMAIN e.attrib

\* Mutant: the path of a child forgets the path of its parent.
ChildPathFlat(path, name) == <<".", name>>

\* '{}.{}'.format(path, name)
ChildPath(path, name) == path \o <<".", name>>

NoNameError(path) == [kind |-> "SchemaFormatError", msg |-> "no_name", path |-> path]
ConflictError(path, name) ==
    [kind |-> "SchemaFormatError", msg |-> "conflict", path |-> ChildPath(path, name)]
KeyError == [kind |-> "KeyError"]

\* a_children, the dict line 49 builds once from the children of a: each name
\* is mapped to the child object holding it, the last one where a name is
\* repeated.  The objects are numbered by their place in objs, which starts as
\* the list of the children of a.
a_children(kids) ==
    [name \in {kids[k].attrib.name : k \in 1..Len(kids)} |->
        CHOOSE k \in 1..Len(kids) :
            /\ kids[k].attrib.name = name
            /\ \A j \in (k + 1)..Len(kids) : kids[j].attrib.name # name]

\* The children of a: the objects that list holds, in its order.
Children(objs, list) == [k \in 1..Len(list) |-> objs[list[k]]]

\* Mutant: an entry present on both sides without children keeps the old one.
KeepEntry(list, a_child, b_child) == list

\* a.remove(a_child); a.append(b_child)
ReplaceEntry(list, a_child, b_child) ==
    Append(SelectSeq(list, LAMBDA o : o # a_child), b_child)

\* a.remove(a_child) where a no longer holds a_child.
ValueError == [kind |-> "ValueError"]

\* _merge_schema_entries(a, b, path) is the dict comprehension of line 49
\* followed by the loop over b; MergeLoop is the loop, from the child of b at
\* the head of b_rest on.  objs are the child objects the call has seen, list
\* the ones a holds now; a_children is never refreshed, so the object it gives
\* for a name may have left a.  Both operators give [a, err]: a as the call
\* leaves it, and the exception it raises, NoError if it returns.
RECURSIVE merge_schema_entries(_, _, _)
RECURSIVE MergeLoop(_, _, _, _, _, _)
MergeLoop(a, objs, list, b_rest, children, path) ==
    LET a_now == [a EXCEPT !.kids = Children(objs, list)]
    IN  IF b_rest = <<>> THEN [a |-> a_now, err |-> NoError]
        ELSE LET b_child == b_rest[1]
             IN  IF ~HasName(b_child) THEN [a |-> a_now, err |-> NoNameError(path)]
                 ELSE LET name == b_child.attrib.name
                          new == Len(objs) + 1
                      IN  IF name \in DOMAIN children
                          THEN LET a_child == children[name]
                               IN  IF (Len(b_child.kids) = 0) # (Len(objs[a_child].kids) = 0)
                                   THEN [a |-> a_now, err |-> ConflictError(path, name)]
                                   ELSE IF Len(b_child.kids) # 0 /\ Len(objs[a_child].kids) # 0
                                   THEN LET sub == merge_schema_entries(
                                                       objs[a_child], b_child,
                                                       ChildPath(path, name))
                                            objs2 == [objs EXCEPT ![a_child] = sub.a]
                                        IN  IF sub.err # NoError
                                            THEN [a |-> [a EXCEPT !.kids = Children(objs2, list)],
                                                  err |-> sub.err]
                                            ELSE MergeLoop(a, objs2, list, Tail(b_rest),
                                                           children, path)
                                   ELSE IF \A k \in 1..Len(list) : list[k] # a_child
                                   THEN [a |-> a_now, err |-> ValueError]
                                   ELSE MergeLoop(a, Append(objs, b_child),
                                                  ReplaceEntry(list, a_child, new),
                                                  Tail(b_rest), children, path)
                          ELSE MergeLoop(a, Append(objs, b_child), Append(list, new),
                                         Tail(b_rest), children, path)

merge_schema_entries(a, b, path) ==
    IF \E k \in 1..Len(a.kids) : ~HasName(a.kids[k])
    THEN [a |-> a, err |-> KeyError]
    ELSE MergeLoop(a, a.kids, [k \in 1..Len(a.kids) |-> k], b.kids,
                   a_children(a.kids), path)

\* ---- inputs of the merger

\* The element e as section number i holds it.
RECURSIVE FromSection(_, _)
FromSection(e, i) ==
    [attrib |-> [e.attrib EXCEPT !.from = i],
     kids |-> [k \in 1..Len(e.kids) |-> FromSection(e.kids[k], i)]]

\* Entries of the third, second and first level of a section.
Level3 == {Element("c", 0, <<>>), Unnamed(0, <<>>)}

Level2 ==
    {Element("b", 0, ks) : ks \in {<<>>} \cup {<<k>> : k \in Level3}}
    \cup {Unnamed(0, ks) : ks \in {<<>>} \cup {<<k>> : k \in Level3}}

Level1 ==
    {Element("a", 0, ks) : ks \in {<<>>} \cup {<<k>> : k \in Level2}}
    \cup {Element("d", 0, <<>>), Unnamed(0, <<>>)}

NameOrNone(e) == IF HasName(e) THEN e.attrib.name ELSE "(none)"

\* A section: up to two top-level entries with different names.  The root
\* stands for the <schema> element fromstring wraps the section text in.
SchemaSections ==
    {Unnamed(0, ks) :
        ks \in {<<>>} \cup {<<e>> : e \in Level1}
               \cup {ks2 \in {<<e1, e2>> : e1 \in Level1, e2 \in Level1} :
                         NameOrNone(ks2[1]) # NameOrNone(ks2[2])}}

SectionLists ==
    {[i \in 1..Len(ss) |-> FromSection(ss[i], i)] :
        ss \in SeqsUpTo(SchemaSections, MaxSections)}

SchemaStart ==
    /\ merged_schema = Unnamed(0, <<>>)
    /\ sec_i = 0
    /\ schema_pc = "merging"
    /\ schema_err = NoError

\* One iteration of the loop of _merge_schema_sections.
MergeSection ==
    /\ schema_pc = "merging"
    /\ sec_i < Len(sections)
    /\ LET m == merge_schema_entries(merged_schema, sections[sec_i + 1], <<>>)
       IN  /\ merged_schema' = m.a
           /\ schema_err' = m.err
           /\ schema_pc' = IF m.err = NoError THEN "merging" ELSE "failed"
    /\ sec_i' = sec_i + 1
    /\ UNCHANGED <<sections, sortVars, locVars, genVars>>

\* The loop is over: the merged schema is serialized and returned.
MergeReturn ==
    /\ schema_pc = "merging"
    /\ sec_i = Len(sections)
    /\ schema_pc' = "done"
    /\ UNCHANGED <<sections, merged_schema, sec_i, schema_err, sortVars, locVars, genVars>>

\* ------------------------------------------------ ArchitectureComponent.parse

\* A path is a piece of text whose words are directory and file names, "/",
\* "-" and the suffix ".c".

\* Mutant: the two patterns are tried in the opposite order.
ArchFragmentNamesSwapped(arch_name, resource_name) ==
    << <<resource_name, "-", arch_name, ".c">>,
       <<arch_name, "-", resource_name, "/", arch_name, "-", resource_name, ".c">> >>

\* [f.format(arch.name, self._resource_name)
\*      for f in ['{0}-{1}/{0}-{1}.c', '{1}-{0}.c']]
ArchFragmentNames(arch_name, resource_name) ==
    << <<arch_name, "-", resource_name, "/", arch_name, "-", resource_name, ".c">>,
       <<resource_name, "-", arch_name, ".c">> >>

\* utils.base_to_top_paths(topdir, 'components', partial_path): the candidate
\* locations from the core repository (BASE_DIR) up to the repository x.py
\* was invoked from (topdir).
base_to_top_paths(partial_path) ==
    << <<"base", "/", "components", "/">> \o partial_path,
       <<"top", "/", "components", "/">> \o partial_path >>

NotFound == <<"(not found)">>

\* Component.find: the first existing candidate, the list reversed; NotFound
\* stands for the KeyError it raises.
find(exists, partial_path) ==
    LET paths == ReverseSeq(base_to_top_paths(partial_path))
        hits == {k \in 1..Len(paths) : paths[k] \in exists}
    IN  IF hits = {} THEN NotFound
        ELSE paths[CHOOSE k \in hits : \A h \in hits : k <= h]

Resources == {"sched", "ctx"}
ArchNames == {"arm"}

\* The fragment names either naming convention gives, in both repositories.
CandidateFiles(arch_name, resource_name) ==
    LET names == {<<arch_name, "-", resource_name, "/", arch_name, "-", resource_name, ".c">>,
                  <<resource_name, "-", arch_name, ".c">>,
                  <<resource_name, "-", arch_name, "/", resource_name, "-", arch_name, ".c">>,
                  <<arch_name, "-", resource_name, ".c">>}
    IN  UNION {{base_to_top_paths(n)[k] : k \in 1..2} : n \in names}

LocateStart ==
    /\ loc_k = 0
    /\ loc_tried = <<>>
    /\ loc_component = NotFound
    /\ loc_pc = "search"
    /\ loc_err = NoError

\* One iteration of the loop over the names: find, then break if it returned.
TryName ==
    /\ loc_pc = "search"
    /\ loc_component = NotFound
    /\ loc_k < Len(ArchFragmentNames(loc_arch, loc_resource))
    /\ LET name == ArchFragmentNames(loc_arch, loc_resource)[loc_k + 1]
       IN  /\ loc_tried' = Append(loc_tried, name)
           /\ loc_component' = find(loc_exists, name)
    /\ loc_k' = loc_k + 1
    /\ UNCHANGED <<loc_resource, loc_arch, loc_exists, loc_pc, loc_err, sortVars, schemaVars, genVars>>

\* After the loop, no component: KeyError naming the resource and the architecture.
LocateFail ==
    /\ loc_pc = "search"
    /\ loc_component = NotFound
    /\ loc_k = Len(ArchFragmentNames(loc_arch, loc_resource))
    /\ loc_pc' = "failed"
    /\ loc_err' = [kind |-> "KeyError", resource |-> loc_resource, arch |-> loc_arch]
    /\ UNCHANGED <<loc_resource, loc_arch, loc_exists, loc_k, loc_tried, loc_component,
                   sortVars, schemaVars, genVars>>

\* After the loop, a component: it is handed to _parse_sectioned_file.
LocateParse ==
    /\ loc_pc = "search"
    /\ loc_component # NotFound
    /\ loc_pc' = "parsed"
    /\ UNCHANGED <<loc_resource, loc_arch, loc_exists, loc_k, loc_tried, loc_component,
                   loc_err, sortVars, schemaVars, genVars>>

\* --------------------------------------------------------- module generation

REQUIRED_COMPONENT_SECTIONS ==
    <<"public_headers", "public_type_definitions", "public_structure_definitions",
      "public_object_like_macros", "public_function_like_macros",
      "public_extern_definitions", "public_function_definitions", "headers",
      "object_like_macros", "type_definitions", "structure_definitions",
      "extern_definitions", "function_definitions", "state", "function_like_macros",
      "functions", "public_functions">>

source_sections ==
    <<"headers", "object_like_macros", "type_definitions", "structure_definitions",
      "extern_definitions", "function_definitions", "state", "function_like_macros",
      "functions", "public_functions">>

header_sections ==
    <<"public_headers", "public_type_definitions", "public_object_like_macros",
      "public_function_like_macros", "public_extern_definitions",
      "public_function_definitions">>

Range(s) == {s[k] : k \in 1..Len(s)}

\* The end of _parse_sectioned_file: file is the dictionary of rendered
\* sections read from a fragment file; a required section that is missing
\* raises, otherwise the dictionary is returned.
parse_sectioned_file(file) ==
    LET missing == {k \in 1..Len(REQUIRED_COMPONENT_SECTIONS) :
                        REQUIRED_COMPONENT_SECTIONS[k] \notin DOMAIN file}
    IN  IF missing # {}
        THEN [err |-> [kind |-> "Exception", msg |-> "missing_section",
                       section |-> REQUIRED_COMPONENT_SECTIONS[
                                       CHOOSE k \in missing : \A m \in missing : k <= m]],
              sections |-> file]
        ELSE [err |-> NoError, sections |-> file]

\* Mutant: contents already in the list are not added again.
AppendIfNew(list, contents) ==
    IF contents \in Range(list) THEN list ELSE Append(list, contents)

\* module_sections[name].append(contents)
AppendContents(list, contents) == Append(list, contents)

\* The inner loop of get_module_sections, over the items of one component.
AddSections(ms, parsed) ==
    [name \in DOMAIN ms \cup DOMAIN parsed |->
        IF name \in DOMAIN parsed
        THEN AppendContents(IF name \in DOMAIN ms THEN ms[name] ELSE <<>>, parsed[name])
        ELSE ms[name]]

\* '\n'.join(blocks), every block a text.
RECURSIVE JoinBlocks(_)
JoinBlocks(blocks) ==
    IF blocks = <<>> THEN EmptyText
    ELSE IF Len(blocks) = 1 THEN blocks[1]
    ELSE blocks[1] \o JoinBlocks(Tail(blocks))

\* f.write(text): the text goes on from the end of the last line of the file.
WriteText(file, text) ==
    SubSeq(file, 1, Len(file) - 1) \o <<file[Len(file)] \o text[1]>> \o Tail(text)

\* f.write('\n')
WriteNewline(file) == Append(file, <<>>)

\* The loop that writes the source file, from source_sections[k] on: the text
\* of the file when the with block is left, and the exception that left it.
RECURSIVE WriteSourceSections(_, _, _)
WriteSourceSections(secs, k, file) ==
    IF k > Len(source_sections) THEN [file |-> file, err |-> NoError]
    ELSE LET ss == source_sections[k]
         IN  IF ss \notin DOMAIN secs THEN [file |-> file, err |-> KeyError]
             ELSE LET joined == JoinBlocks(secs[ss])
                      sorted == IF ss = "type_definitions" THEN sort_typedefs(joined)
                                ELSE [err |-> NoError, text |-> joined]
                  IN  IF sorted.err # NoError THEN [file |-> file, err |-> sorted.err]
                      ELSE WriteSourceSections(
                               secs, k + 1, WriteNewline(WriteText(file, sorted.text)))

\* self._module_name.upper().replace('-', '_'), word by word.
UpperWord(w) ==
    CASE w = "rtos" -> "RTOS"
      [] w = "acamar" -> "ACAMAR"
      [] w = "gatria" -> "GATRIA"
      [] w = "-" -> "_"
      [] OTHER -> w

ModuleName(name) == <<"rtos", "-", name>>
GuardName(name) == [k \in 1..Len(ModuleName(name)) |-> UpperWord(ModuleName(name)[k])]

\* for data in sections[ss]: f.write(data); f.write('\n')
RECURSIVE WriteBlocks(_, _)
WriteBlocks(blocks, file) ==
    IF blocks = <<>> THEN file
    ELSE WriteBlocks(Tail(blocks), WriteNewline(WriteText(file, blocks[1])))

RECURSIVE WriteHeaderSections(_, _, _)
WriteHeaderSections(secs, k, file) ==
    IF k > Len(header_sections) THEN [file |-> file, err |-> NoError]
    ELSE LET ss == header_sections[k]
         IN  IF ss \notin DOMAIN secs THEN [file |-> file, err |-> KeyError]
             ELSE WriteHeaderSections(secs, k + 1, WriteBlocks(secs[ss], file))

\* The with block that writes the header file.
WriteHeaderFile(secs, name) ==
    LET mod_name == GuardName(name)
        opened == << <<"#ifndef", " ">> \o mod_name \o <<"_H">>,
                     <<"#define", " ">> \o mod_name \o <<"_H">>,
                     <<>> >>
        body == WriteHeaderSections(secs, 1, opened)
    IN  IF body.err # NoError THEN body
        ELSE [file |-> WriteText(WriteNewline(body.file),
                                 << <<"#endif", " ", "/*", " ">> \o mod_name
                                        \o <<"_H", " ", "*/">> >>),
              err |-> NoError]

\* _merge_schema_sections(sections): the loop from sections[k] on.
RECURSIVE MergeSectionsFrom(_, _, _)
MergeSectionsFrom(secs, k, merged) ==
    IF k > Len(secs) THEN [a |-> merged, err |-> NoError]
    ELSE LET m == merge_schema_entries(merged, secs[k], <<>>)
         IN  IF m.err # NoError THEN m ELSE MergeSectionsFrom(secs, k + 1, m.a)

merge_schema_sections(secs) == MergeSectionsFrom(secs, 1, Unnamed(0, <<>>))

XmlPrologue == << <<"<?xml", " ", "version=\"1.0\"", " ", "encoding=\"UTF-8\"", " ", "?>">>, <<>> >>

\* The with block that writes schema.xml: text is the prologue, xml the
\* serialized merged schema, <<>> as long as it is not written.
WriteSchemaFile(secs) ==
    LET m == merge_schema_sections(IF "schema" \in DOMAIN secs THEN secs["schema"] ELSE <<>>)
    IN  IF m.err # NoError THEN [text |-> XmlPrologue, xml |-> <<>>, err |-> m.err]
        ELSE [text |-> XmlPrologue, xml |-> <<m.a>>, err |-> NoError]

\* A file of the output directory.
Absent == [present |-> FALSE, text |-> EmptyText, xml |-> <<>>]
FileOf(text, xml) == [present |-> TRUE, text |-> text, xml |-> xml]

\* Mutant: the schema file is written before the header file.
NextStepSchemaFirst(step) ==
    CASE step = "source" -> "schema"
      [] step = "schema" -> "header"
      [] step = "header" -> "meta"
      [] step = "meta" -> "next"

\* The order of the statements of _render.
NextStep(step) ==
    CASE step = "source" -> "header"
      [] step = "header" -> "schema"
      [] step = "schema" -> "meta"
      [] step = "meta" -> "next"

\* ---- inputs of the generation

\* args.configurations in the order of its items: the name of an RTOS skeleton
\* and the names of the architectures it is generated for.  args.skeletons
\* and args.architectures hold every name.
Configurations ==
    <<[rtos |-> "acamar", archs |-> <<"arm", "ppc">>],
      [rtos |-> "gatria", archs |-> <<"arm">>]>>

rtos_name(r) == Configurations[r].rtos
arch_names(r) == Configurations[r].archs

\* The modules of the build, packages/<architecture>/rtos-<skeleton>, each
\* as the index of its skeleton and the index of its architecture.
Modules ==
    UNION {{<<r, a>> : a \in 1..Len(arch_names(r))} : r \in 1..Len(Configurations)}

\* The first skeleton from r on that generate_rtos_module has an architecture
\* for, past the last one if there is none.
RECURSIVE NextRtos(_)
NextRtos(r) ==
    IF r > Len(Configurations) \/ Len(arch_names(r)) > 0 THEN r ELSE NextRtos(r + 1)

BlockOf(v, s) == << <<v, " ", s>> >>

\* The rendered sections of a fragment file: the sections named in names,
\* "schema" too if with_schema.
FileSections(v, names, typedefs, with_schema, schema) ==
    [s \in names \cup (IF with_schema THEN {"schema"} ELSE {}) |->
        IF s = "schema" THEN schema
        ELSE IF s = "type_definitions" THEN typedefs
        ELSE BlockOf(v, s)]

Required == Range(REQUIRED_COMPONENT_SECTIONS)

ComponentFiles ==
    {FileSections("x", Required, <<TypedefLine(<<"A">>, "B")>>, FALSE, Unnamed(0, <<>>)),
     FileSections("y", Required, <<TypedefLine(<<"int">>, "A")>>, TRUE,
                  Unnamed(0, <<Element("a", 1, <<>>)>>)),
     FileSections("x", Required, <<TypedefLine(<<"A">>, "B")>>, TRUE,
                  Unnamed(0, <<Element("a", 2, <<Element("b", 2, <<>>)>>)>>)),
     FileSections("y", Required, << <<"typedef", " ", "int", " ", "A">> >>, FALSE,
                  Unnamed(0, <<>>)),
     FileSections("x", Required \ {"state"}, <<TypedefLine(<<"A">>, "B")>>, FALSE,
                  Unnamed(0, <<>>))}

NoSections == [s \in {} |-> <<>>]

NoFiles == [source |-> Absent, header |-> Absent, schema |-> Absent, meta |-> Absent]

\* The numbers of components of the skeletons: MaxComponents at most in all.
RECURSIVE SumUpTo(_, _)
SumUpTo(counts, r) == IF r = 0 THEN 0 ELSE counts[r] + SumUpTo(counts, r - 1)

ComponentCounts ==
    {counts \in [1..Len(Configurations) -> 0..MaxComponents] :
        SumUpTo(counts, Len(Configurations)) <= MaxComponents}

\* The module being generated.
CurrentModule == <<gen_rtos, gen_arch>>

GenStart ==
    /\ gen_files = [m \in Modules |-> <<>>]
    /\ gen_rtos = NextRtos(1)
    /\ gen_arch = 1
    /\ gen_k = 0
    /\ module_sections = NoSections
    /\ gen_pc = (IF NextRtos(1) > Len(Configurations) THEN "done" ELSE "parse")
    /\ gen_err = NoError
    /\ gen_disk = [m \in Modules |-> NoFiles]

\* One iteration of the loop of get_module_sections: the next component reads
\* its fragment file for the architecture and its sections are added.
ParseComponent ==
    /\ gen_err = NoError
    /\ gen_pc = "parse"
    /\ gen_k < gen_ncomp[gen_rtos]
    /\ \E file \in ComponentFiles :
           LET parsed == parse_sectioned_file(file)
           IN  /\ gen_files' = [gen_files EXCEPT ![CurrentModule] = Append(@, file)]
               /\ IF parsed.err # NoError
                  THEN /\ gen_err' = parsed.err
                       /\ UNCHANGED <<gen_k, module_sections>>
                  ELSE /\ module_sections' = AddSections(module_sections, parsed.sections)
                       /\ gen_k' = gen_k + 1
                       /\ UNCHANGED gen_err
    /\ UNCHANGED <<gen_ncomp, gen_meta_exists, gen_rtos, gen_arch, gen_pc, gen_disk,
                   sortVars, schemaVars, locVars>>

\* get_module_sections returns: the module is created and generate() called.
CreateModule ==
    /\ gen_err = NoError
    /\ gen_pc = "parse"
    /\ gen_k = gen_ncomp[gen_rtos]
    /\ gen_pc' = "source"
    /\ UNCHANGED <<gen_ncomp, gen_files, gen_meta_exists, gen_rtos, gen_arch, gen_k,
                   module_sections, gen_err, gen_disk, sortVars, schemaVars, locVars>>

\* The step after step: the next statement of _render, the next architecture
\* of generate_rtos_module, or the next configuration of build.
Advance(step) ==
    IF NextStep(step) # "next"
    THEN /\ gen_pc' = NextStep(step)
         /\ UNCHANGED <<gen_rtos, gen_arch, gen_k, module_sections>>
    ELSE IF gen_arch < Len(arch_names(gen_rtos))
    THEN /\ gen_pc' = "parse"
         /\ gen_arch' = gen_arch + 1
         /\ gen_k' = 0
         /\ module_sections' = NoSections
         /\ UNCHANGED gen_rtos
    ELSE IF NextRtos(gen_rtos + 1) <= Len(Configurations)
    THEN /\ gen_pc' = "parse"
         /\ gen_rtos' = NextRtos(gen_rtos + 1)
         /\ gen_arch' = 1
         /\ gen_k' = 0
         /\ module_sections' = NoSections
    ELSE /\ gen_pc' = "done"
         /\ UNCHANGED <<gen_rtos, gen_arch, gen_k, module_sections>>

Stay == UNCHANGED <<gen_pc, gen_rtos, gen_arch, gen_k, module_sections>>

WriteSource ==
    /\ gen_err = NoError
    /\ gen_pc = "source"
    /\ LET w == WriteSourceSections(module_sections, 1, EmptyText)
       IN  /\ gen_disk' = [gen_disk EXCEPT ![CurrentModule].source = FileOf(w.file, <<>>)]
           /\ gen_err' = w.err
           /\ IF w.err = NoError THEN Advance("source") ELSE Stay
    /\ UNCHANGED <<gen_ncomp, gen_files, gen_meta_exists, sortVars, schemaVars, locVars>>

WriteHeader ==
    /\ gen_err = NoError
    /\ gen_pc = "header"
    /\ LET w == WriteHeaderFile(module_sections, rtos_name(gen_rtos))
       IN  /\ gen_disk' = [gen_disk EXCEPT ![CurrentModule].header = FileOf(w.file, <<>>)]
           /\ gen_err' = w.err
           /\ IF w.err = NoError THEN Advance("header") ELSE Stay
    /\ UNCHANGED <<gen_ncomp, gen_files, gen_meta_exists, sortVars, schemaVars, locVars>>

WriteSchema ==
    /\ gen_err = NoError
    /\ gen_pc = "schema"
    /\ LET w == WriteSchemaFile(module_sections)
       IN  /\ gen_disk' = [gen_disk EXCEPT ![CurrentModule].schema = FileOf(w.text, w.xml)]
           /\ gen_err' = w.err
           /\ IF w.err = NoError THEN Advance("schema") ELSE Stay
    /\ UNCHANGED <<gen_ncomp, gen_files, gen_meta_exists, sortVars, schemaVars, locVars>>

\* shutil.copyfile(self._python_file, python_output)
CopyMetadata ==
    /\ gen_err = NoError
    /\ gen_pc = "meta"
    /\ IF gen_meta_exists[gen_rtos]
       THEN /\ gen_disk' = [gen_disk EXCEPT ![CurrentModule].meta =
                                FileOf(<< <<rtos_name(gen_rtos), ".py">> >>, <<>>)]
            /\ gen_err' = NoError
            /\ Advance("meta")
       ELSE /\ gen_err' = [kind |-> "FileNotFoundError"]
            /\ UNCHANGED gen_disk
            /\ Stay
    /\ UNCHANGED <<gen_ncomp, gen_files, gen_meta_exists, sortVars, schemaVars, locVars>>

\* ------------------------------------------------------------ specifications

SortIdle == typedef_lines = EmptyText /\ SortStart
SchemaIdle == sections = <<>> /\ SchemaStart
LocateIdle == loc_resource = "" /\ loc_arch = "" /\ loc_exists = {} /\ LocateStart
GenIdle ==
    /\ gen_ncomp = [r \in 1..Len(Configurations) |-> 0]
    /\ gen_meta_exists = [r \in 1..Len(Configurations) |-> TRUE]
    /\ GenStart

InitSort ==
    /\ typedef_lines \in TypedefBlocks
    /\ SortStart
    /\ SchemaIdle
    /\ LocateIdle
    /\ GenIdle

NextSort == SortFirst \/ SortAgain

SpecSort == InitSort /\ [][NextSort]_vars

InitSchema ==
    /\ sections \in SectionLists
    /\ SchemaStart
    /\ SortIdle
    /\ LocateIdle
    /\ GenIdle

NextSchema == MergeSection \/ MergeReturn

SpecSchema == InitSchema /\ [][NextSchema]_vars

InitLocate ==
    /\ loc_resource \in Resources
    /\ loc_arch \in ArchNames
    /\ loc_exists \in SUBSET CandidateFiles(loc_arch, loc_resource)
    /\ LocateStart
    /\ SortIdle
    /\ SchemaIdle
    /\ GenIdle

NextLocate == TryName \/ LocateFail \/ LocateParse

SpecLocate == InitLocate /\ [][NextLocate]_vars

InitGen ==
    /\ gen_ncomp \in ComponentCounts
    /\ gen_meta_exists \in [1..Len(Configurations) -> BOOLEAN]
    /\ GenStart
    /\ SortIdle
    /\ SchemaIdle
    /\ LocateIdle

NextGen ==
    ParseComponent \/ CreateModule \/ WriteSource \/ WriteHeader \/ WriteSchema
        \/ CopyMetadata

SpecGen == InitGen /\ [][NextGen]_vars

\* ---- properties of the sorter

\* The pairs of the argument and the pairs the returned text holds when it is
\* parsed again.
InPairs == ParseTypedefs(typedef_lines, <<>>).typedefs
OutPairs == ParseTypedefs(sort_first.text, <<>>).typedefs

WellFormed(lines) == ParseTypedefs(lines, <<>>).err = NoError

SortReturned == sort_pc # "start" /\ sort_first.err = NoError

NewTypesOf(pairs) == {pairs[k].new : k \in 1..Len(pairs)}

Count(pairs, p) == Cardinality({k \in 1..Len(pairs) : pairs[k] = p})

UniqueNewTypes(pairs) ==
    \A i, j \in 1..Len(pairs) : pairs[i].new = pairs[j].new => i = j

\* The pairs a dependency chain links to a pair whose old type is no new type
\* of the block.
RECURSIVE Reach(_, _)
Reach(all, R) ==
    LET next == R \cup {p \in all : \E q \in R : q.new = p.old}
    IN  IF next = R THEN R ELSE Reach(all, next)

Resolved(pairs) ==
    LET all == {pairs[k] : k \in 1..Len(pairs)}
    IN  Reach(all, {p \in all : p.old \notin NewTypesOf(pairs)})

ChainABC ==
    <<Pair(<<"A">>, <<"int">>), Pair(<<"B">>, <<"A">>), Pair(<<"C">>, <<"B">>)>>

\* C1 as stated: whenever two pairs of the output are such that the old type
\* of one is the new type of the other, the producer comes first.
C1_ProducerFirst_AsStated ==
    SortReturned =>
        \A i, j \in 1..Len(OutPairs) :
            (i # j /\ OutPairs[j].old = OutPairs[i].new) => i < j

\* C1 amended: every output pair whose old type is a new type of the output
\* comes after some pair that declares that type; when no two pairs of the
\* block declare the same new type, every producer comes before its consumer;
\* the lines declaring A from int, B from A and C from B come out in the
\* order A, B, C whatever their order in the input.
C1_ProducerFirst ==
    SortReturned =>
        /\ \A j \in 1..Len(OutPairs) :
               OutPairs[j].old \in NewTypesOf(OutPairs)
                   => \E i \in 1..(j - 1) : OutPairs[i].new = OutPairs[j].old
        /\ UniqueNewTypes(InPairs) =>
               \A i, j \in 1..Len(OutPairs) :
                   (i # j /\ OutPairs[j].old = OutPairs[i].new) => i < j
        /\ (Len(InPairs) = 3 /\ \A p \in {ChainABC[k] : k \in 1..3} : Count(InPairs, p) = 1)
               => OutPairs = ChainABC

\* A chain of three given out of order was sorted; a block that declares one
\* name twice had a consumer placed after one of its producers.
C1_Witness ==
    /\ SortReturned
    /\ InPairs = <<ChainABC[3], ChainABC[2], ChainABC[1]>>
    /\ OutPairs = ChainABC

\* C2: a well-formed block raises no error, and the output holds every pair
\* linked by a dependency chain to a first-pass pair as often as the input
\* holds it, and no other pair.
C2_DropsUnresolvedOnly ==
    (sort_pc # "start" /\ WellFormed(typedef_lines)) =>
        /\ sort_first.err = NoError
        /\ \A p \in {InPairs[k] : k \in 1..Len(InPairs)}
                     \cup {OutPairs[k] : k \in 1..Len(OutPairs)} :
               Count(OutPairs, p) =
                   IF p \in Resolved(InPairs) THEN Count(InPairs, p) ELSE 0

\* A block with a chain of two behind a first-pass pair and a self-reference:
\* the chain is kept and the self-reference is dropped.
C2_Witness ==
    /\ SortReturned
    /\ Len(InPairs) = 3
    /\ Len(OutPairs) = 2
    /\ \E k \in 1..3 : InPairs[k].old = InPairs[k].new
    /\ OutPairs[2].old = OutPairs[1].new

\* C3: sorting the text a first call returned returns the same text.
C3_Idempotent ==
    sort_pc = "resorted" =>
        /\ sort_second.err = NoError
        /\ sort_second.text = sort_first.text

\* The second call ran on an output that reordered its input and dropped a pair.
C3_Witness ==
    /\ sort_pc = "resorted"
    /\ Len(InPairs) = 3
    /\ Len(OutPairs) = 2
    /\ OutPairs # SubSeq(InPairs, 1, 2)
    /\ OutPairs # SubSeq(InPairs, 2, 3)
    /\ OutPairs # <<InPairs[1], InPairs[3]>>

\* ---- properties of the merger

RECURSIVE AnyUnnamed(_)
AnyUnnamed(e) ==
    \E k \in 1..Len(e.kids) : ~HasName(e.kids[k]) \/ AnyUnnamed(e.kids[k])

\* The dotted paths of the entries of e (itself at path) that hold an entry
\* without a name.
RECURSIVE UnnamedContainers(_, _)
UnnamedContainers(e, path) ==
    (IF \E k \in 1..Len(e.kids) : ~HasName(e.kids[k]) THEN {path} ELSE {})
    \cup UNION {UnnamedContainers(e.kids[k], path \o <<".", e.kids[k].attrib.name>>) :
                    k \in {n \in 1..Len(e.kids) : HasName(e.kids[n])}}

\* The dotted paths of the entries that a and b both hold, under parents
\* that both have children, and that have children on one side only.
RECURSIVE ConflictPaths(_, _, _)
ConflictPaths(a, b, path) ==
    UNION {LET x == a.kids[i]
               y == b.kids[j]
               here == path \o <<".", y.attrib.name>>
           IN  IF ~(HasName(x) /\ HasName(y)) THEN {}
               ELSE IF x.attrib.name # y.attrib.name THEN {}
               ELSE IF (Len(x.kids) = 0) # (Len(y.kids) = 0) THEN {here}
               ELSE ConflictPaths(x, y, here) :
           i \in 1..Len(a.kids), j \in 1..Len(b.kids)}

\* The dotted paths of the named entries without children of e, reached
\* through named entries.
RECURSIVE LeafPaths(_, _)
LeafPaths(e, path) ==
    UNION {LET x == e.kids[k]
               here == path \o <<".", x.attrib.name>>
           IN  IF Len(x.kids) = 0 THEN {here} ELSE LeafPaths(x, here) :
           k \in {n \in 1..Len(e.kids) : HasName(e.kids[n])}}

\* The entries of e at the dotted path, in document order.
RECURSIVE EntriesAt(_, _)
EntriesAt(e, path) ==
    IF path = <<>> THEN <<e>>
    ELSE LET name == path[2]
             RECURSIVE Collect(_)
             Collect(k) ==
                 IF k > Len(e.kids) THEN <<>>
                 ELSE (IF HasName(e.kids[k]) /\ e.kids[k].attrib.name = name
                       THEN EntriesAt(e.kids[k], SubSeq(path, 3, Len(path)))
                       ELSE <<>>) \o Collect(k + 1)
         IN  Collect(1)

IsConflict(err) == err.kind = "SchemaFormatError" /\ err.msg = "conflict"
IsNoName(err) == err.kind = "SchemaFormatError" /\ err.msg = "no_name"

SchemaFinished == schema_pc \in {"done", "failed"}

\* C4 as stated: when an entry at any depth of any section has no name
\* attribute, the merge fails with the schema-format error that names the
\* dotted path of an entry holding such an entry.
C4_MissingNameIsFormatError ==
    (SchemaFinished /\ \E i \in 1..Len(sections) : AnyUnnamed(sections[i])) =>
        /\ IsNoName(schema_err)
        /\ schema_err.path \in
               UNION {UnnamedContainers(sections[i], <<>>) : i \in 1..Len(sections)}

\* C7: a merge that raises the structural-conflict error names the dotted
\* path, from the root, of an entry that has children on one side only; when
\* such an entry exists the merge fails, and it fails with that error when
\* every entry has a name.
C7_ConflictNamesPath ==
    [][(schema_pc = "merging" /\ sec_i' = sec_i + 1) =>
          LET conflicts == ConflictPaths(merged_schema, sections[sec_i + 1], <<>>)
          IN  /\ IsConflict(schema_err') => schema_err'.path \in conflicts
              /\ conflicts # {} => schema_err' # NoError
              /\ (/\ conflicts # {}
                  /\ ~AnyUnnamed(merged_schema)
                  /\ ~AnyUnnamed(sections[sec_i + 1]))
                     => IsConflict(schema_err')]_vars

\* A conflict two levels down was reported with the path ".a.b".
C7_Witness ==
    /\ schema_pc = "failed"
    /\ IsConflict(schema_err)
    /\ schema_err.path = <<".", "a", ".", "b">>

\* C8: after a merge that returned, every named entry without children that
\* some section holds is in the merged schema once, and it is the entry of
\* the last section that holds it.
C8_LastLeafWins ==
    schema_pc = "done" =>
        \A i \in 1..Len(sections) : \A p \in LeafPaths(sections[i], <<>>) :
            LET holders == {j \in 1..Len(sections) : p \in LeafPaths(sections[j], <<>>)}
                last == CHOOSE j \in holders : \A h \in holders : h <= j
                found == EntriesAt(merged_schema, p)
            IN  /\ Len(found) = 1
                /\ found[1] = EntriesAt(sections[last], p)[1]

\* Two sections both held the leaves ".d" and ".a.b"; the merge returned.
C8_Witness ==
    /\ schema_pc = "done"
    /\ Len(sections) = 2
    /\ \A i \in 1..2 : {<<".", "d">>, <<".", "a", ".", "b">>} \subseteq LeafPaths(sections[i], <<>>)
    /\ EntriesAt(merged_schema, <<".", "d">>)[1].attrib.from = 2
    /\ EntriesAt(merged_schema, <<".", "a", ".", "b">>)[1].attrib.from = 2

\* ---- properties of the fragment locator

LocateFinished == loc_pc \in {"parsed", "failed"}

\* What parse does when it tries the names first and second in that order.
TriesInOrder(first, second) ==
    LET has1 == find(loc_exists, first) # NotFound
        has2 == find(loc_exists, second) # NotFound
    IN  /\ loc_tried = IF has1 THEN <<first>> ELSE <<first, second>>
        /\ has1 => loc_pc = "parsed" /\ loc_component = find(loc_exists, first)
        /\ (~has1 /\ has2) =>
               loc_pc = "parsed" /\ loc_component = find(loc_exists, second)
        /\ (~has1 /\ ~has2) =>
               /\ loc_pc = "failed"
               /\ loc_err = [kind |-> "KeyError", resource |-> loc_resource,
                             arch |-> loc_arch]

\* C6 as stated: for resource R and architecture A, parse tries 'R-A/R-A.c'
\* and then 'A-R.c', parses the first that exists, and fails naming R and A
\* when neither exists.
C6_NamingOrder_AsStated ==
    LocateFinished =>
        TriesInOrder(<<loc_resource, "-", loc_arch, "/", loc_resource, "-", loc_arch, ".c">>,
                     <<loc_arch, "-", loc_resource, ".c">>)

\* C6 amended: parse tries 'A-R/A-R.c' (architecture before resource) and
\* then 'R-A.c' (resource before architecture), parses the first that
\* exists, and fails naming R and A when neither exists.
C6_NamingOrder ==
    LocateFinished =>
        TriesInOrder(<<loc_arch, "-", loc_resource, "/", loc_arch, "-", loc_resource, ".c">>,
                     <<loc_resource, "-", loc_arch, ".c">>)

\* Only the second name exists: both were tried and 'R-A.c' was parsed,
\* although the file 'A-R.c' exists too.
C6_Witness ==
    /\ loc_pc = "parsed"
    /\ Len(loc_tried) = 2
    /\ loc_component = <<"top", "/", "components", "/", loc_resource, "-", loc_arch, ".c">>
    /\ <<"top", "/", "components", "/", loc_arch, "-", loc_resource, ".c">> \in loc_exists

\* ---- properties of the generation

\* Module m comes before module n in the order of build.
Before(m, n) == m[1] < n[1] \/ (m[1] = n[1] /\ m[2] < n[2])

\* The contents the files give for the section name, in the order of the files.
RECURSIVE Contribs(_, _)
Contribs(files, name) ==
    IF files = <<>> THEN <<>>
    ELSE (IF name \in DOMAIN files[1] THEN <<files[1][name]>> ELSE <<>>)
             \o Contribs(Tail(files), name)

SectionNames(files) == UNION {DOMAIN files[k] : k \in 1..Len(files)}

\* The sections of module a, from all its components.
SectionsOf(a) ==
    [name \in SectionNames(gen_files[a]) |-> Contribs(gen_files[a], name)]

RECURSIVE Flatten(_)
Flatten(blocks) == IF blocks = <<>> THEN <<>> ELSE blocks[1] \o Flatten(Tail(blocks))

SourceComplete(a) ==
    LET w == WriteSourceSections(SectionsOf(a), 1, EmptyText)
    IN  w.err = NoError /\ gen_disk[a].source = FileOf(w.file, <<>>)

HeaderComplete(a) ==
    LET w == WriteHeaderFile(SectionsOf(a), rtos_name(a[1]))
    IN  w.err = NoError /\ gen_disk[a].header = FileOf(w.file, <<>>)

SchemaComplete(a) ==
    LET w == WriteSchemaFile(SectionsOf(a))
    IN  w.err = NoError /\ gen_disk[a].schema = FileOf(w.text, w.xml)

MetaComplete(a) == gen_disk[a].meta.present

Failed == gen_err # NoError

\* C5 as stated: every name of the required-sections registry is in the
\* source-file or the header-file section sequence, so once a module is
\* generated every block a component gave under a required section is in
\* its source file or its header file.
C5_EveryRequiredSectionWritten ==
    \A a \in Modules :
        MetaComplete(a) =>
            \A s \in Range(REQUIRED_COMPONENT_SECTIONS) :
                /\ s \in Range(source_sections) \cup Range(header_sections)
                /\ s # "type_definitions" =>
                       \A k \in 1..Len(gen_files[a]) :
                           Range(gen_files[a][k][s]) \subseteq
                               Range(gen_disk[a].source.text)
                                   \cup Range(gen_disk[a].header.text)

\* C9: the list of every section name is the contents of the components
\* parsed so far that have a section of that name, in component order, one
\* element for each; no other name has a list.
C9_SectionsInComponentOrder ==
    LET parsed == SubSeq(gen_files[CurrentModule], 1, gen_k)
    IN  /\ DOMAIN module_sections = SectionNames(parsed)
        /\ \A name \in DOMAIN module_sections :
               module_sections[name] = Contribs(parsed, name)

\* Two components with the same contents under 'functions' gave a list of two
\* elements; only one of them gave a schema section.
C9_Witness ==
    /\ gen_pc = "source"
    /\ gen_k = 2
    /\ Len(module_sections["functions"]) = 2
    /\ module_sections["functions"][1] = module_sections["functions"][2]
    /\ "schema" \in DOMAIN module_sections
    /\ Len(module_sections["schema"]) = 1

\* The order of the steps, and what a failure leaves behind.
GenerationOrder ==
    \A a \in Modules :
        /\ gen_disk[a].source.present =>
               (Before(a, CurrentModule) \/ (a = CurrentModule /\ gen_pc # "parse"))
        /\ gen_disk[a].header.present => SourceComplete(a)
        /\ gen_disk[a].schema.present => SourceComplete(a) /\ HeaderComplete(a)
        /\ gen_disk[a].meta.present =>
               SourceComplete(a) /\ HeaderComplete(a) /\ SchemaComplete(a)
        /\ Before(CurrentModule, a) => gen_disk[a] = NoFiles /\ gen_files[a] = <<>>
        /\ (Before(a, CurrentModule) \/ gen_pc = "done") =>
               /\ SourceComplete(a) /\ HeaderComplete(a) /\ SchemaComplete(a)
               /\ MetaComplete(a)
               /\ gen_disk[a].meta.text = << <<rtos_name(a[1]), ".py">> >>

FailureLeaves ==
    LET d == gen_disk[CurrentModule]
        files == gen_files[CurrentModule]
    IN  /\ (Failed /\ gen_pc = "parse") => d = NoFiles
        /\ (Failed /\ gen_pc = "source") =>
               /\ d.source.present
               /\ d.header = Absent /\ d.schema = Absent /\ d.meta = Absent
        /\ (Failed /\ gen_pc = "source" /\ gen_err.kind = "Exception") =>
               d.source.text = Flatten(Contribs(files, "headers"))
                                   \o Flatten(Contribs(files, "object_like_macros"))
                                   \o << <<>> >>
        /\ (Failed /\ gen_pc = "schema") =>
               /\ gen_err.kind = "SchemaFormatError"
               /\ SourceComplete(CurrentModule) /\ HeaderComplete(CurrentModule)
               /\ d.schema = FileOf(XmlPrologue, <<>>)
               /\ d.meta = Absent
        /\ (Failed /\ gen_pc = "meta") =>
               /\ SourceComplete(CurrentModule) /\ HeaderComplete(CurrentModule)
               /\ SchemaComplete(CurrentModule)
               /\ d.meta = Absent

\* C10: the steps of a module run in the order parse, source, header, schema,
\* metadata, one (skeleton, architecture) pair after the other in the order
\* of build; a failure ends the run; the files written before it stay as they
\* are, the file being written holds what was written before the failure, and
\* no file of a later pair exists.
C10_AbortWithoutRollback ==
    /\ [](GenerationOrder /\ FailureLeaves)
    /\ [][/\ ~Failed
          /\ \A a \in Modules : \A f \in {"source", "header", "schema", "meta"} :
                 gen_disk[a][f].present => gen_disk'[a][f] = gen_disk[a][f]]_vars

\* The second architecture of the first skeleton failed on its schema after
\* the module of the first architecture was generated; its source and header
\* files are on disk, its metadata is not, and the second skeleton has no file.
C10_Witness ==
    /\ Failed
    /\ CurrentModule = <<1, 2>>
    /\ gen_pc = "schema"
    /\ gen_disk[<<1, 1>>].meta.present
    /\ gen_disk[<<1, 2>>].header.present
    /\ gen_disk[<<1, 2>>].schema = FileOf(XmlPrologue, <<>>)
    /\ ~gen_disk[<<1, 2>>].meta.present
    /\ gen_disk[<<2, 1>>] = NoFiles

====
